---- MODULE Spec2Model ----
(***************************************************************************)
(* Iterative-deepening alpha-beta agent of isolation/competition_agent.py  *)
(* (CustomPlayer.get_move, alphabeta, _max_value, _min_value and           *)
(* custom_score) as a state machine: one get_move call, its call stack,    *)
(* the SearchTimeout signal in flight, and the clock it polls.             *)
(*                                                                         *)
(* A game state is the path of move indices played from the root.  The     *)
(* agent (self) is to move at even plies, its opponent at odd plies.       *)
(* Scores are integers; -infinity and +infinity are the two integers just  *)
(* outside the finite range, which keeps every comparison, max and min of  *)
(* the floats the code uses.                                               *)
(***************************************************************************)
EXTENDS Integers, Sequences, FiniteSets, TLC

VARIABLES
    game,                \* the board handed to get_move (index of a game tree)
    clock,               \* behaviour of the time_left callable handed to get_move
    now,                 \* the last value time_left() returned
    pc,                  \* position of get_move: idle, loop, search, except, returned, raised
    depth,               \* get_move's local depth
    legal_moves,         \* get_move's local legal_moves
    chosen_move_in_time, \* get_move's local chosen_move_in_time
    stack,               \* frames of alphabeta / _max_value / _min_value, innermost last
    ret,                 \* value handed back by the frame that returned last
    signal,              \* a SearchTimeout is propagating
    result,              \* what get_move returned
    expired,             \* history: time_left() has read below the threshold
    raiseLevel,          \* history: stack height at which SearchTimeout was raised
    depths,              \* history: depth argument of every alphabeta call, in order
    completed,           \* history: move returned by every alphabeta call that returned
    work                 \* history: counts of clock reads, evaluator calls, enumerations,
                         \*          successor generations, invocations, and sibling
                         \*          moves skipped by a cutoff

vars == <<game, clock, now, pc, depth, legal_moves, chosen_move_in_time, stack,
          ret, signal, result, expired, raiseLevel, depths, completed, work>>

----------------------------------------------------------------------------
(* Bounds of the model. *)

NumGames == 120     \* game trees tried
Height == 4         \* every game is over after at most Height plies
MaxBranch == 3      \* at most MaxBranch legal moves in a state
MaxScore == 2       \* finite heuristic values are -MaxScore .. MaxScore
MaxDepth == 5       \* get_move's loop is followed up to this depth
MaxTime == 2        \* largest value time_left() returns

(* Program constant: CustomPlayer(timeout=1.). *)
TIMER_THRESHOLD == 1

Inf == MaxScore + 1
NegInf == -Inf

NoMove == <<-1, -1>>

Max(a, b) == IF a >= b THEN a ELSE b
Min(a, b) == IF a <= b THEN a ELSE b
Front(s) == SubSeq(s, 1, Len(s) - 1)

----------------------------------------------------------------------------
(* The board (isolation.Board), which the agent only consumes: a family of *)
(* finite game trees.  Key spreads shapes and heuristic values over the    *)
(* family.                                                                 *)

RECURSIVE Key(_, _)
Key(g, p) ==
    IF p = <<>> THEN g
    ELSE (Key(g, Front(p)) * 7 + p[Len(p)] * 5 + 3) % 251

NumMoves(g, p) ==
    IF Len(p) >= Height THEN 0
    ELSE Min(MaxBranch, Key(g, p) % (2 * MaxBranch + 2))

\* game.get_legal_moves(game.active_player): a move is <<ply, index>>
get_legal_moves(g, p) == [i \in 1 .. NumMoves(g, p) |-> <<Len(p), i>>]

\* game.forecast_move(move)
forecast_move(p, move) == Append(p, move[2])

\* game.get_player_location(self): the square of the agent's last move
get_player_location(p) ==
    IF p = <<>> THEN <<0, 0>>
    ELSE LET l == IF Len(p) % 2 = 1 THEN Len(p) - 1 ELSE Len(p) - 2
         IN  <<l, p[l + 1]>>

\* game.active_player is self
SelfToMove(p) == Len(p) % 2 = 0

\* game.is_loser(self), game.is_winner(self)
is_loser(g, p) == SelfToMove(p) /\ NumMoves(g, p) = 0
is_winner(g, p) == ~SelfToMove(p) /\ NumMoves(g, p) = 0

\* the finite value of the mobility formula on a board that is not decided
Heuristic(g, p) ==
    ((Key(g, p) \div (2 * MaxBranch + 2)) % (2 * MaxScore + 1)) - MaxScore

----------------------------------------------------------------------------
(* custom_score(game, self) *)

custom_score(g, p) ==
    IF is_loser(g, p) THEN NegInf
    ELSE IF is_winner(g, p) THEN Inf
    ELSE Heuristic(g, p)

----------------------------------------------------------------------------
(* Call stack. *)

Top == stack[Len(stack)]
Pop == SubSeq(stack, 1, Len(stack) - 1)
SetTop(f) == [stack EXCEPT ![Len(stack)] = f]

\* a fresh invocation of fn on board p, about to run its first statement
Frame(fn, p, d, alpha, beta) ==
    [fn |-> fn, phase |-> "entry", game |-> p, depth |-> d,
     alpha |-> alpha, beta |-> beta,
     value_of_game |-> 0, best_move |-> NoMove, i |-> 0]

NoRet == [has |-> FALSE, score |-> 0, move |-> NoMove]
Returned(score, move) == [has |-> TRUE, score |-> score, move |-> move]

Count(field) == [work EXCEPT ![field] = @ + 1]
Count2(w, field) == [w EXCEPT ![field] = @ + 1]

----------------------------------------------------------------------------
(* The clock: what the next time_left() call may return. *)

Readings ==
    CASE clock = "any" -> 0 .. MaxTime
      [] clock = "never" -> TIMER_THRESHOLD .. MaxTime
      [] clock = "tick" -> {now - 1}

\* faulty variants of the timer check: a reading equal to the threshold aborts
\* too; the check is missing
TimedOut_Inclusive(r) == r <= TIMER_THRESHOLD
TimedOut_Never(r) == FALSE

\* self.time_left() < self.TIMER_THRESHOLD
TimedOut(r) == r < TIMER_THRESHOLD

----------------------------------------------------------------------------
(* The conditions and updates of the search, by source line. *)

\* faulty variant: the early return for a player without moves is missing
NoLegalMoves_Never(moves) == FALSE

\* get_move: if not legal_moves
NoLegalMoves(moves) == moves = <<>>

\* faulty variant: the loop ends once the whole game tree has been searched
KeepSearching_UntilHeight(d) == d <= Height

\* get_move: while True
KeepSearching(d) == TRUE

\* get_move: depth += 1
NextDepth(d) == d + 1

\* faulty variant: the search is called outside the try block
InTry_Nowhere(at) == FALSE

\* get_move: the call of alphabeta sits inside try ... except SearchTimeout
InTry(at) == at = "search"

\* faulty variant: the random fallback is missing
FinalChoices_NoFallback(chosen, moves) == {chosen}

\* get_move: if chosen_move_in_time == (-1, -1): random.choice(legal_moves)
FinalChoices(chosen, moves) ==
    IF chosen = NoMove THEN {moves[k] : k \in 1 .. Len(moves)} ELSE {chosen}

\* faulty variant: a later move with an equal score replaces the best move
MaxImproves_OnTies(new_score, value) == new_score >= value

\* _max_value: if new_score > value_of_game
MaxImproves(new_score, value) == new_score > value

\* faulty variant: a score equal to beta does not cut off
BetaCutoff_Strict(new_score, beta) == new_score > beta

\* _max_value: if new_score >= beta
BetaCutoff(new_score, beta) == new_score >= beta

\* _min_value: if new_score < value_of_game
MinImproves(new_score, value) == new_score < value

\* faulty variant: a score equal to alpha does not cut off
AlphaCutoff_Strict(new_score, alpha) == new_score < alpha

\* _min_value: if new_score <= alpha
AlphaCutoff(new_score, alpha) == new_score <= alpha

----------------------------------------------------------------------------
Init ==
    /\ game \in 1 .. NumGames
    /\ clock \in {"any", "never", "tick"}
    /\ now \in IF clock = "tick" THEN 1 .. (2 * MaxDepth) ELSE {MaxTime}
    /\ pc = "idle"
    /\ depth = 0
    /\ legal_moves = <<>>
    /\ chosen_move_in_time = NoMove
    /\ stack = <<>>
    /\ ret = NoRet
    /\ signal = FALSE
    /\ result = NoMove
    /\ expired = FALSE
    /\ raiseLevel = 0
    /\ depths = <<>>
    /\ completed = <<>>
    /\ work = [reads |-> 0, evals |-> 0, enums |-> 0, forecasts |-> 0, calls |-> 0,
               pruned |-> 0]

\* get_move, lines 105-110: enumerate the legal moves; none: return (-1, -1)
GetMove ==
    /\ pc = "idle"
    /\ depth' = 1
    /\ legal_moves' = get_legal_moves(game, <<>>)
    /\ work' = Count("enums")
    /\ IF NoLegalMoves(legal_moves')
       THEN /\ pc' = "returned"
            /\ result' = NoMove
       ELSE /\ pc' = "loop"
            /\ result' = result
    /\ chosen_move_in_time' = NoMove
    /\ UNCHANGED <<game, clock, now, stack, ret, signal, expired, raiseLevel,
                   depths, completed>>

\* get_move, line 115: call self.alphabeta(game, depth) with the default window
CallAlphabeta ==
    /\ pc = "loop"
    /\ depth <= MaxDepth
    /\ pc' = "search"
    /\ stack' = <<Frame("alphabeta", <<>>, depth, NegInf, Inf)>>
    /\ depths' = Append(depths, depth)
    /\ work' = Count("calls")
    /\ ret' = NoRet
    /\ UNCHANGED <<game, clock, now, depth, legal_moves, chosen_move_in_time,
                   signal, result, expired, raiseLevel, completed>>

\* the statements of _max_value / _min_value between the timer check and the loop
NodeBody(f, w) ==
    IF f.depth = 0
    THEN /\ stack' = Pop
         /\ ret' = Returned(custom_score(game, f.game), get_player_location(f.game))
         /\ work' = Count2(w, "evals")
    ELSE IF get_legal_moves(game, f.game) = <<>>
    THEN /\ stack' = Pop
         /\ ret' = Returned(custom_score(game, f.game), NoMove)
         /\ work' = Count2(Count2(w, "enums"), "evals")
    ELSE /\ stack' = SetTop([f EXCEPT !.phase = "loop",
                                      !.value_of_game = IF f.fn = "max" THEN NegInf ELSE Inf,
                                      !.best_move = NoMove,
                                      !.i = 1])
         /\ ret' = NoRet
         /\ work' = Count2(w, "enums")

\* first statement of alphabeta, _max_value and _min_value: read the clock and
\* raise SearchTimeout, or go on to the loop (alphabeta: call _max_value)
Enter ==
    /\ stack # <<>>
    /\ ~signal
    /\ Top.phase = "entry"
    /\ \E r \in Readings :
         /\ now' = r
         /\ IF TimedOut(r)
            THEN /\ signal' = TRUE
                 /\ expired' = TRUE
                 /\ raiseLevel' = Len(stack)
                 /\ work' = Count("reads")
                 /\ UNCHANGED <<stack, ret>>
            ELSE /\ UNCHANGED <<signal, expired, raiseLevel>>
                 /\ IF Top.fn = "alphabeta"
                    THEN /\ stack' = Append(SetTop([Top EXCEPT !.phase = "wait"]),
                                            Frame("max", Top.game, Top.depth, Top.alpha, Top.beta))
                         /\ work' = Count2(Count("reads"), "calls")
                         /\ ret' = NoRet
                    ELSE NodeBody(Top, Count("reads"))
    /\ UNCHANGED <<game, clock, pc, depth, legal_moves, chosen_move_in_time,
                   result, depths, completed>>

\* head of "for move in legal_moves": recurse on the next move, or fall out of
\* the loop and return (value_of_game, best_move)
Expand ==
    /\ stack # <<>>
    /\ ~signal
    /\ Top.phase = "loop"
    /\ LET f == Top
           moves == get_legal_moves(game, f.game)
       IN  IF f.i > Len(moves)
           THEN /\ stack' = Pop
                /\ ret' = Returned(f.value_of_game, f.best_move)
                /\ work' = work
           ELSE /\ stack' = Append(SetTop([f EXCEPT !.phase = "wait"]),
                                   Frame(IF f.fn = "max" THEN "min" ELSE "max",
                                         forecast_move(f.game, moves[f.i]),
                                         f.depth - 1, f.alpha, f.beta))
                /\ ret' = NoRet
                /\ work' = Count2(Count("forecasts"), "calls")
    /\ UNCHANGED <<game, clock, now, pc, depth, legal_moves, chosen_move_in_time,
                   signal, result, expired, raiseLevel, depths, completed>>

\* _max_value lines 193-198, _min_value lines 219-224: the child has returned
Resume ==
    /\ stack # <<>>
    /\ ~signal
    /\ Top.phase = "wait"
    /\ Top.fn \in {"max", "min"}
    /\ ret.has
    /\ LET f == Top
           move == get_legal_moves(game, f.game)[f.i]
           new_score == ret.score
           better == IF f.fn = "max" THEN MaxImproves(new_score, f.value_of_game)
                                     ELSE MinImproves(new_score, f.value_of_game)
           value == IF better THEN new_score ELSE f.value_of_game
           best == IF better THEN move ELSE f.best_move
           cut == IF f.fn = "max" THEN BetaCutoff(new_score, f.beta)
                                  ELSE AlphaCutoff(new_score, f.alpha)
       IN  IF cut
           THEN /\ stack' = Pop
                /\ ret' = Returned(value, best)
                /\ work' = [work EXCEPT !.pruned = @ + NumMoves(game, f.game) - f.i]
           ELSE /\ stack' = SetTop([f EXCEPT
                        !.phase = "loop",
                        !.value_of_game = value,
                        !.best_move = best,
                        !.alpha = IF f.fn = "max" THEN Max(f.alpha, new_score) ELSE f.alpha,
                        !.beta = IF f.fn = "min" THEN Min(f.beta, new_score) ELSE f.beta,
                        !.i = f.i + 1])
                /\ ret' = NoRet
                /\ work' = work
    /\ UNCHANGED <<game, clock, now, pc, depth, legal_moves, chosen_move_in_time,
                   signal, result, expired, raiseLevel, depths, completed>>

\* alphabeta line 173: return self._max_value(...)[1]
AlphabetaReturn ==
    /\ stack # <<>>
    /\ ~signal
    /\ Top.phase = "wait"
    /\ Top.fn = "alphabeta"
    /\ ret.has
    /\ stack' = Pop
    /\ ret' = Returned(0, ret.move)
    /\ completed' = Append(completed, ret.move)
    /\ UNCHANGED <<game, clock, now, pc, depth, legal_moves, chosen_move_in_time,
                   signal, result, expired, raiseLevel, depths, work>>

\* faulty variant of Assign: a depth that returns (-1, -1) does not overwrite the move
\* recorded by an earlier depth
Assign_KeepsOld ==
    /\ pc = "search"
    /\ stack = <<>>
    /\ ~signal
    /\ ret.has
    /\ chosen_move_in_time' = IF ret.move = NoMove THEN chosen_move_in_time ELSE ret.move
    /\ depth' = NextDepth(depth)
    /\ pc' = IF KeepSearching(depth') THEN "loop" ELSE "except"
    /\ ret' = NoRet
    /\ UNCHANGED <<game, clock, now, legal_moves, stack, signal, result, expired,
                   raiseLevel, depths, completed, work>>

\* get_move lines 114-116: record the move of the depth that completed; depth += 1;
\* back to the head of the loop, whose end would lead to line 120
Assign ==
    /\ pc = "search"
    /\ stack = <<>>
    /\ ~signal
    /\ ret.has
    /\ chosen_move_in_time' = ret.move
    /\ depth' = NextDepth(depth)
    /\ pc' = IF KeepSearching(depth') THEN "loop" ELSE "except"
    /\ ret' = NoRet
    /\ UNCHANGED <<game, clock, now, legal_moves, stack, signal, result, expired,
                   raiseLevel, depths, completed, work>>

\* SearchTimeout leaves a frame: alphabeta, _max_value and _min_value catch nothing
Propagate ==
    /\ signal
    /\ stack # <<>>
    /\ stack' = Pop
    /\ UNCHANGED <<game, clock, now, pc, depth, legal_moves, chosen_move_in_time,
                   ret, signal, result, expired, raiseLevel, depths, completed, work>>

\* SearchTimeout reaches get_move: lines 117-118 catch it when it comes out of
\* the try block; anywhere else it would leave get_move
Catch ==
    /\ signal
    /\ stack = <<>>
    /\ signal' = FALSE
    /\ pc' = IF InTry(pc) THEN "except" ELSE "raised"
    /\ UNCHANGED <<game, clock, now, depth, legal_moves, chosen_move_in_time, stack,
                   ret, result, expired, raiseLevel, depths, completed, work>>

\* get_move lines 120-123: fall back to a random legal move, and return
Finish ==
    /\ pc = "except"
    /\ \E m \in FinalChoices(chosen_move_in_time, legal_moves) : result' = m
    /\ pc' = "returned"
    /\ UNCHANGED <<game, clock, now, depth, legal_moves, chosen_move_in_time, stack,
                   ret, signal, expired, raiseLevel, depths, completed, work>>

Next ==
    \/ GetMove
    \/ CallAlphabeta
    \/ Enter
    \/ Expand
    \/ Resume
    \/ AlphabetaReturn
    \/ Assign
    \/ Propagate
    \/ Catch
    \/ Finish

Spec == Init /\ [][Next]_vars

\* get_move is handed a clock that loses one unit with every read; the
\* interpreter always takes the next step
InitTick == Init /\ clock = "tick"

SpecTick == InitTick /\ [][Next]_vars /\ WF_vars(Next)

----------------------------------------------------------------------------
(* Reference: depth-limited minimax without pruning, same enumeration      *)
(* order, the first move with the strictly best score wins.                *)

RECURSIVE MinimaxValue(_, _, _)
MinimaxValue(g, p, d) ==
    IF d = 0 \/ NumMoves(g, p) = 0 THEN custom_score(g, p)
    ELSE LET vals == {MinimaxValue(g, Append(p, i), d - 1) : i \in 1 .. NumMoves(g, p)}
         IN  IF SelfToMove(p)
             THEN CHOOSE v \in vals : \A w \in vals : w <= v
             ELSE CHOOSE v \in vals : \A w \in vals : v <= w

MinimaxMove(g, d) ==
    LET n == NumMoves(g, <<>>)
        v == MinimaxValue(g, <<>>, d)
    IN  IF n = 0 \/ v = NegInf THEN NoMove
        ELSE LET first == CHOOSE i \in 1 .. n :
                            /\ MinimaxValue(g, <<i>>, d - 1) = v
                            /\ \A j \in 1 .. (i - 1) : MinimaxValue(g, <<j>>, d - 1) # v
             IN  <<0, first>>

----------------------------------------------------------------------------
(* Shorthands of the claims. *)

RootHasMoves == NumMoves(game, <<>>) > 0
RootMoves == {<<0, i>> : i \in 1 .. NumMoves(game, <<>>)}
AlphabetaJustReturned == pc = "search" /\ stack = <<>> /\ ret.has /\ ~signal

\* the child that has just returned makes the node on top of the stack cut off
CutPending ==
    /\ stack # <<>>
    /\ ~signal
    /\ Top.phase = "wait"
    /\ ret.has
    /\ \/ Top.fn = "max" /\ ret.score >= Top.beta
       \/ Top.fn = "min" /\ ret.score <= Top.alpha

----------------------------------------------------------------------------
\* C1: when the active player has a legal move, whatever the clock reads and
\* wherever the timeout strikes, the move get_move returns is one of the legal
\* moves enumerated at the top of get_move: never (-1, -1), never a move of a
\* deeper ply.
C1_ReturnsLegalMove ==
    (pc = "returned" /\ RootHasMoves) =>
        /\ result \in {legal_moves[k] : k \in 1 .. Len(legal_moves)}
        /\ result \in RootMoves
        /\ result # NoMove

\* the clock is below the threshold on the very first read, with two moves to pick from
C1_Witness ==
    /\ pc = "returned"
    /\ expired
    /\ work.reads = 1
    /\ Len(legal_moves) >= 2
    /\ result = legal_moves[2]

C3_AlphabetaEqualsMinimax ==
    AlphabetaJustReturned => ret.move = MinimaxMove(game, depth)

\* a depth-3 search in which a cutoff skipped sibling moves has returned a move
C3_Witness ==
    /\ AlphabetaJustReturned
    /\ depth >= 3
    /\ work.pruned > 0
    /\ ret.move # NoMove

\* C4: SearchTimeout, raised at any node entry at any recursion level, is caught
\* at the top level of get_move and never leaves it.
C4_TimeoutNeverLeavesGetMove ==
    /\ pc # "raised"
    /\ signal => InTry(pc)
    /\ (expired /\ ~signal) => pc \in {"except", "returned"}

\* the signal was raised four frames deep and get_move has returned a move
C4_Witness ==
    /\ pc = "returned"
    /\ expired
    /\ raiseLevel >= 4
    /\ result \in RootMoves

\* C5: with no legal move for the active player get_move returns (-1, -1) at
\* once: no search is started, the evaluator is not invoked, the clock not read.
C5_NoMovesReturnsSentinel ==
    ~RootHasMoves =>
        /\ pc \in {"idle", "returned"}
        /\ pc = "returned" => result = NoMove
        /\ stack = <<>>
        /\ depths = <<>>
        /\ work.reads = 0
        /\ work.evals = 0
        /\ work.calls = 0
        /\ work.forecasts = 0

C5_Witness == ~RootHasMoves /\ pc = "returned" /\ result = NoMove

\* C6: the step that follows a child score >= beta at a MAX node (<= alpha at a
\* MIN node) is the node's return: no sibling is expanded, and the pair returned
\* is the score of that child with the move that led to it.
C6_CutoffReturnsAtOnce ==
    [][CutPending =>
        /\ stack' = Pop
        /\ ret' = Returned(ret.score, get_legal_moves(game, Top.game)[Top.i])
        /\ work'.forecasts = work.forecasts
        /\ work'.evals = work.evals
        /\ work'.calls = work.calls]_vars

\* a MAX node with a finite beta is cut off while a sibling move is left
C6_Witness ==
    /\ CutPending
    /\ Top.fn = "max"
    /\ Top.beta < Inf
    /\ Top.i < NumMoves(game, Top.game)

\* C7: alphabeta is called with depths 1, 2, 3, ... and, with a clock that never
\* reads below the threshold and a legal move at the root, get_move never leaves
\* its loop.
C7_DeepensForever ==
    /\ \A k \in 1 .. Len(depths) : depths[k] = k
    /\ (clock = "never" /\ RootHasMoves) => pc \in {"idle", "loop", "search"}

\* the loop goes on after a search deeper than the whole game tree has completed
C7_Witness ==
    /\ clock = "never"
    /\ RootHasMoves
    /\ pc = "loop"
    /\ depth > Height + 1
    /\ Len(completed) = Height + 1

\* C8: an invocation's first step reads the clock and raises SearchTimeout
\* exactly when the reading is strictly below the threshold, and after a
\* reading below the threshold there is no further clock read, evaluator call,
\* enumeration, successor generation or invocation.
C8_TimerCheckedFirst ==
    [][/\ (stack # <<>> /\ ~signal /\ Top.phase = "entry") =>
              /\ work'.reads = work.reads + 1
              /\ signal' <=> (now' < TIMER_THRESHOLD)
              /\ signal' => (stack' = stack /\ ret' = ret)
       /\ ~(stack # <<>> /\ ~signal /\ Top.phase = "entry") =>
              work'.reads = work.reads
       /\ Len(stack') > Len(stack) =>
              /\ stack'[Len(stack')].phase = "entry"
              /\ work'.calls = work.calls + 1
       /\ expired => work' = work]_vars

\* a reading equal to the threshold has let the search go on, after evaluator calls
C8_Witness ==
    /\ now = TIMER_THRESHOLD
    /\ ~expired
    /\ work.reads >= 3
    /\ work.evals >= 1

\* C9: in a search started with the default window, alpha < beta holds in every
\* _max_value and _min_value invocation, at its entry and before each child.
C9_WindowOpen ==
    \A k \in 1 .. Len(stack) : stack[k].alpha < stack[k].beta

\* a node is entered with a window finite at both ends
C9_Witness ==
    /\ stack # <<>>
    /\ Top.phase = "entry"
    /\ NegInf < Top.alpha
    /\ Top.beta < Inf

\* C10: with a clock that decreases with every read, get_move returns.
C10_Returns == <>(pc = "returned")

\* the clock ran out during the second depth or later, and get_move returned
C10_Witness ==
    /\ clock = "tick"
    /\ pc = "returned"
    /\ expired
    /\ depth >= 2

====
